---- MODULE Spec2Model ----
(***************************************************************************)
(* Model of the Sleeek photo-assessment server (src/index.js) and of its   *)
(* HTTP bridge (src/unnamed/part_000).                                     *)
(*                                                                         *)
(* JavaScript objects have reference identity: `context` in assessPhoto is *)
(* either the very object the Map holds for the key, or a fresh object that *)
(* only the running call knows until it is stored.  The model therefore    *)
(* keeps a heap of context objects, the Map from key to object reference,  *)
(* and one record per asynchronous assessPhoto invocation.                 *)
(*                                                                         *)
(* Optional values (a request field that may be missing, a nullable        *)
(* orientation, a response that may not exist) are sequences of length 0   *)
(* or 1: <<>> is undefined/null, <<v>> is the value v.                     *)
(***************************************************************************)
EXTENDS Integers, Sequences, FiniteSets, TLC

VARIABLES
    assessmentContexts, \* this.assessmentContexts: contextKey -> object reference
    heap,               \* the context objects that are still referenced
    calls,              \* the assessPhoto invocations in flight, one record per slot
    outcome,            \* the request that settled last, and what its caller got
    started,            \* number of assess_photo requests received so far
    bridge              \* the bridge's POST /assess request and its child process

vars == <<assessmentContexts, heap, calls, outcome, started, bridge>>

(***************************************************************************)
(* Bounds of the model.                                                    *)
(***************************************************************************)
MaxInFlight == 2    \* invocation slots: how many calls may overlap
MaxCalls == 3       \* requests received in one behaviour of Spec
MaxSeqCalls == 4    \* requests received in one behaviour of SpecSeq
MaxWideCalls == 2   \* requests received in one behaviour of SpecWide
MaxBridgeCalls == 2 \* direct requests received in one behaviour of SpecBridge

Slots == 1..MaxInFlight

(***************************************************************************)
(* Inputs.                                                                 *)
(***************************************************************************)
Absent == <<>>
Some(v) == <<v>>
IsPresent(o) == o # <<>>
Get(o) == o[1]


Orientation(p, y, r) == [pitch |-> p, yaw |-> y, roll |-> r]

\* Pairwise dissimilarities: A0-A30 exactly 30, A30-A37 10, A0-A37 sqrt(1200).
A0 == Orientation(0, 0, 0)
A30 == Orientation(10, 20, 20)
A37 == Orientation(20, 20, 20)
Orientations == {A0, A30, A37}

Opt(S) == {Absent} \cup {Some(v) : v \in S}

\* The arguments of a tools/call request (stackIndex is never read).
Args(imageBase64, shootId, roomType, currentAngle) ==
    [imageBase64 |-> imageBase64, roomType |-> roomType, shootId |-> shootId,
     currentAngle |-> currentAngle]

Request(shootId, roomType, currentAngle) ==
    Args(Some("img"), Some(shootId), Some(roomType), currentAngle)

\* Requests of Spec and SpecSeq: one key, orientations 0 and more than 30 apart.
Requests == {Request("a", "c", a) : a \in Opt({A0, A37})}

\* Requests that lack a required field.
IncompleteRequests ==
    {Args(Absent, Some("a"), Some("c"), Absent),
     Args(Some("img"), Absent, Some("c"), Absent),
     Args(Some("img"), Some("a"), Absent, Absent)}

\* Requests of SpecWide: every orientation on one key, identifiers that hold
\* the separator, and the incomplete requests.
WideRequests ==
    {Request("a", "c", a) : a \in Opt(Orientations)}
    \cup {Request("a:b", "c", Absent), Request("a", "b:c", Absent)}
    \cup IncompleteRequests

\* Requests of SpecBridge: one key, with and without an orientation.
BridgeRequests == {Request("a", "c", a) : a \in Opt({A0})}

\* What the vision service may answer.
Feedbacks == {"Move left", "You CAN'T MOVE BACK", "against wall"}

\* Its answers in Spec, where calls overlap.
FewFeedbacks == {"Move left", "You CAN'T MOVE BACK"}

(***************************************************************************)
(* Strings.                                                                *)
(***************************************************************************)
UpperCase == <<"A", "B", "C", "D", "E", "F", "G", "H", "I", "J", "K", "L", "M",
               "N", "O", "P", "Q", "R", "S", "T", "U", "V", "W", "X", "Y", "Z">>
LowerCase == <<"a", "b", "c", "d", "e", "f", "g", "h", "i", "j", "k", "l", "m",
               "n", "o", "p", "q", "r", "s", "t", "u", "v", "w", "x", "y", "z">>

LowerChar(ch) ==
    IF \E i \in 1..Len(UpperCase) : UpperCase[i] = ch
    THEN LowerCase[CHOOSE i \in 1..Len(UpperCase) : UpperCase[i] = ch]
    ELSE ch

RECURSIVE toLowerCase(_)
toLowerCase(s) ==
    IF Len(s) = 0 THEN ""
    ELSE LowerChar(SubSeq(s, 1, 1)) \o toLowerCase(SubSeq(s, 2, Len(s)))

includes(s, pat) ==
    \E i \in 1..(Len(s) - Len(pat) + 1) : SubSeq(s, i, i + Len(pat) - 1) = pat

\* A template literal's ${v}: a missing value prints as "undefined".
Interpolate(o) == IF IsPresent(o) THEN Get(o) ELSE "undefined"

(***************************************************************************)
(* The pure functions of SleeekMCPServer.                                  *)
(***************************************************************************)
Abs(n) == IF n < 0 THEN -n ELSE n

\* The code returns Math.sqrt(r); the model returns the radicand r, which is
\* exact in integers, and compares r with the square of the threshold.
calculateAngleDifference(angle1, angle2) ==
    IF ~IsPresent(angle1) \/ ~IsPresent(angle2) THEN 0
    ELSE LET dPitch == Abs(Get(angle1).pitch - Get(angle2).pitch)
             dYaw == Abs(Get(angle1).yaw - Get(angle2).yaw)
             dRoll == Abs(Get(angle1).roll - Get(angle2).roll)
         IN  dPitch * dPitch + dYaw * dYaw + dRoll * dRoll

ResetThreshold == 30

\* Variant with an inclusive boundary (angleDiff >= 30).
ExceedsThresholdInclusive(radicand) == radicand >= ResetThreshold * ResetThreshold

\* angleDiff > 30, on the radicand.
ExceedsThreshold(radicand) == radicand > ResetThreshold * ResetThreshold

\* Lines 87-95: the reset decision.
AngleChanged(lastAngle, currentAngle) ==
    /\ IsPresent(lastAngle)
    /\ IsPresent(currentAngle)
    /\ ExceedsThreshold(calculateAngleDifference(lastAngle, currentAngle))

extractConstraints(feedback) ==
    LET lower == toLowerCase(feedback)
        c1 == IF includes(lower, "can't move back") \/ includes(lower, "cannot move back")
              THEN <<"Limited space - cannot move back further">> ELSE <<>>
        c2 == IF includes(lower, "wall behind") \/ includes(lower, "against wall")
              THEN <<"Wall directly behind camera position">> ELSE <<>>
    IN  c1 \o c2

\* Variant whose third step is lower than its second.
calculateScoreDip(attemptNumber) ==
    CASE attemptNumber = 1 -> 75
      [] attemptNumber = 2 -> 82
      [] attemptNumber = 3 -> 80
      [] OTHER -> 90

calculateScore(attemptNumber) ==
    CASE attemptNumber = 1 -> 75
      [] attemptNumber = 2 -> 82
      [] attemptNumber = 3 -> 88
      [] OTHER -> 90

AcceptableFrom == 3

\* Variant that accepts one attempt later (attempts > 3).
isAcceptableLate(attempts) == attempts > AcceptableFrom

\* Line 184.
isAcceptable(attempts) == attempts >= AcceptableFrom

(***************************************************************************)
(* Set of strings in insertion order (the JavaScript Set).                 *)
(***************************************************************************)
Range(s) == {s[i] : i \in 1..Len(s)}

SetAdd(set, c) == IF c \in Range(set) THEN set ELSE Append(set, c)

RECURSIVE SetAddAll(_, _)
SetAddAll(set, cs) ==
    IF cs = <<>> THEN set ELSE SetAddAll(SetAdd(set, Head(cs)), Tail(cs))

(***************************************************************************)
(* Context objects and the heap.                                           *)
(***************************************************************************)
contextKey(params) == Interpolate(params.shootId) \o ":" \o Interpolate(params.roomType)

\* Lines 76-84: the object a call builds when the Map has none for the key.
NewContext(params) ==
    [shootId |-> params.shootId, roomType |-> params.roomType, attempts |-> 0,
     assessments |-> <<>>, constraints |-> <<>>, lastAngle |-> Absent,
     improvements |-> <<>>]

Awaiting(cs) == {c \in Slots : cs[c].pc = "awaiting"}

Live(map, cs) == {map[k] : k \in DOMAIN map} \cup {cs[c].context : c \in Awaiting(cs)}

\* A reference no live object has.
NewRef(live) == CHOOSE o \in 1..(Cardinality(live) + 1) :
                    o \notin live /\ \A p \in 1..(o - 1) : p \in live

\* Unreferenced objects are collected.
Collect(h, live) == [o \in live |-> h[o]]

MapSet(map, k, v) == [x \in DOMAIN map \cup {k} |-> IF x = k THEN v ELSE map[x]]

\* The stored session of a key, by value: Absent when the Map has no entry.
Session(map, h, k) == IF k \in DOMAIN map THEN Some(h[map[k]]) ELSE Absent

(***************************************************************************)
(* Lines 99-125: the system prompt, as the sequence of its lines.          *)
(***************************************************************************)
\* Variant that takes the two oldest records.
FirstTwo(s) == SubSeq(s, 1, IF Len(s) > 2 THEN 2 ELSE Len(s))

\* Line 112: slice(-2), the last two elements, or all of a shorter array.
LastTwo(s) == SubSeq(s, IF Len(s) > 2 THEN Len(s) - 1 ELSE 1, Len(s))

\* Variant that lists the constraints only on calls that are not angle resets.
KnownConstraintsUnlessReset(context, angleReset) ==
    IF Len(context.constraints) > 0 /\ ~angleReset
    THEN <<"", "Known constraints:">>
         \o [i \in 1..Len(context.constraints) |-> "- " \o context.constraints[i]]
    ELSE <<>>

\* Lines 120-125: the constraints section, the same on every call.
KnownConstraints(context, angleReset) ==
    IF Len(context.constraints) > 0
    THEN <<"", "Known constraints:">>
         \o [i \in 1..Len(context.constraints) |-> "- " \o context.constraints[i]]
    ELSE <<>>

BuildPrompt(roomType, context, angleReset) ==
    LET head == <<"You are a professional real estate photographer providing guidance.",
                  "Room type: " \o Interpolate(roomType),
                  "Attempt: " \o ToString(context.attempts)
                      \o (IF angleReset THEN " (NEW ANGLE)" ELSE ""),
                  "",
                  "CRITICAL RULES:",
                  "1. Focus ONLY on composition, framing, and camera position",
                  "2. NEVER mention lighting, exposure, brightness, or shadows",
                  "3. Be specific about room features you can see in THIS image",
                  "4. Maximum 40 words",
                  "5. For attempt 3+, be very accepting and encourage capture">>
        recent == LastTwo(context.assessments)
        previous ==
            IF Len(context.assessments) > 0 /\ ~angleReset
            THEN <<"", "Previous feedback given:">>
                 \o [i \in 1..Len(recent) |-> "- \"" \o recent[i].feedback \o "\""]
                 \o <<"", "Provide DIFFERENT advice. Do not repeat previous suggestions.">>
            ELSE <<>>
    IN  head \o previous \o KnownConstraints(context, angleReset)

(***************************************************************************)
(* assessPhoto, in two halves: up to the await, and after it.              *)
(***************************************************************************)
\* Variant in which an angle reset forgets the constraints too.
ResetContextAndConstraints(context) ==
    [context EXCEPT !.attempts = 0, !.assessments = <<>>, !.constraints = <<>>]

\* Lines 92-93: what an angle reset clears.
ResetContext(context) == [context EXCEPT !.attempts = 0, !.assessments = <<>>]

\* Lines 86-97: the context object when the call reaches the await.
Entered(context, currentAngle) ==
    LET cleared == IF AngleChanged(context.lastAngle, currentAngle)
                   THEN ResetContext(context) ELSE context
    IN  [cleared EXCEPT !.attempts = @ + 1]

\* Variant that keeps the stored orientation when the call supplied none.
RecordedKeepingAngle(context, feedback, currentAngle, angleReset) ==
    LET assessment == [attemptNumber |-> context.attempts, feedback |-> feedback,
                       angle |-> currentAngle, angleReset |-> angleReset]
    IN  [context EXCEPT !.constraints = SetAddAll(@, extractConstraints(feedback)),
                        !.assessments = Append(@, assessment),
                        !.lastAngle = IF IsPresent(currentAngle) THEN currentAngle ELSE @]

\* Lines 155-171: the context object once the answer has been recorded.
\* The record's timestamp (the wall clock) is left out: nothing reads it.
Recorded(context, feedback, currentAngle, angleReset) ==
    LET assessment == [attemptNumber |-> context.attempts, feedback |-> feedback,
                       angle |-> currentAngle, angleReset |-> angleReset]
    IN  [context EXCEPT !.constraints = SetAddAll(@, extractConstraints(feedback)),
                        !.assessments = Append(@, assessment),
                        !.lastAngle = currentAngle]

\* Lines 175-189: the JSON text of the tool result, as the object it encodes.
Response(context, feedback, angleReset) ==
    [feedback |-> feedback,
     attemptNumber |-> context.attempts,
     angleReset |-> angleReset,
     score |-> calculateScore(context.attempts),
     isAcceptable |-> isAcceptable(context.attempts),
     constraints |-> context.constraints]

(***************************************************************************)
(* Invocations.                                                            *)
(***************************************************************************)
NoParams == Args(Absent, Absent, Absent, Absent)

\* pre and alone are observations kept for the properties: the stored session
\* on entry, and whether no other call on the same key has been in flight
\* during this one.
IdleCall == [pc |-> "idle", params |-> NoParams, contextKey |-> "", context |-> 0,
             angleReset |-> FALSE, systemPrompt |-> <<>>, pre |-> Absent,
             alone |-> TRUE]

NoOutcome == [kind |-> "none", params |-> NoParams, angleReset |-> FALSE,
              response |-> Absent]

\* A settled promise: kind is "returned" or "thrown".
Settled(call, kind, response) ==
    [kind |-> kind, params |-> call.params, angleReset |-> call.angleReset,
     response |-> response]

\* Lines 61-69 and 72-126: tools/call with name assess_photo, up to the await.
\* No field of params is checked before it is used.
Begin(c, params) ==
    /\ calls[c].pc = "idle"
    /\ LET key == contextKey(params)
           stored == key \in DOMAIN assessmentContexts
           ref == IF stored THEN assessmentContexts[key]
                  ELSE NewRef(Live(assessmentContexts, calls))
           context == IF stored THEN heap[ref] ELSE NewContext(params)
           angleReset == AngleChanged(context.lastAngle, params.currentAngle)
           counted == Entered(context, params.currentAngle)
           others == {d \in Awaiting(calls) : calls[d].contextKey = key}
           calls1 == [d \in Slots |->
                        IF d = c
                        THEN [pc |-> "awaiting", params |-> params, contextKey |-> key,
                              context |-> ref, angleReset |-> angleReset,
                              systemPrompt |-> BuildPrompt(params.roomType, counted, angleReset),
                              pre |-> Session(assessmentContexts, heap, key),
                              alone |-> others = {}]
                        ELSE IF d \in others THEN [calls[d] EXCEPT !.alone = FALSE]
                        ELSE calls[d]]
           heap1 == [o \in DOMAIN heap \cup {ref} |-> IF o = ref THEN counted ELSE heap[o]]
       IN  /\ calls' = calls1
           /\ heap' = Collect(heap1, Live(assessmentContexts, calls1))
    /\ started' = started + 1
    /\ UNCHANGED <<assessmentContexts, outcome, bridge>>

\* Lines 61-69: tools/call with any other name throws.
UnknownTool ==
    /\ outcome' = Settled(IdleCall, "thrown", Absent)
    /\ UNCHANGED <<assessmentContexts, heap, calls, started, bridge>>

\* Lines 155-189: the vision service answered with `feedback`.
Succeed(c, feedback) ==
    /\ calls[c].pc = "awaiting"
    /\ LET call == calls[c]
           ref == call.context
           updated == Recorded(heap[ref], feedback, call.params.currentAngle,
                               call.angleReset)
           map1 == MapSet(assessmentContexts, call.contextKey, ref)
           calls1 == [calls EXCEPT ![c] = IdleCall]
       IN  /\ assessmentContexts' = map1
           /\ calls' = calls1
           /\ outcome' = Settled(call, "returned",
                                 Some(Response(updated, feedback, call.angleReset)))
           /\ heap' = Collect([heap EXCEPT ![ref] = updated], Live(map1, calls1))
    /\ UNCHANGED <<started, bridge>>

\* Lines 190-193: the vision service call failed or timed out, or its answer
\* had no choices[0].message.content; the error is rethrown.
Fail(c) ==
    /\ calls[c].pc = "awaiting"
    /\ LET calls1 == [calls EXCEPT ![c] = IdleCall]
       IN  /\ calls' = calls1
           /\ outcome' = Settled(calls[c], "thrown", Absent)
           /\ heap' = Collect(heap, Live(assessmentContexts, calls1))
    /\ UNCHANGED <<assessmentContexts, started, bridge>>

(***************************************************************************)
(* The HTTP bridge: POST /assess spawns `node index.js` for the request,   *)
(* writes one tools/call line to its stdin and answers from the last line  *)
(* of its stdout when it closes.                                           *)
(*                                                                         *)
(* The bridge is driven with the requests the in-process server has        *)
(* answered: request and expect are the arguments and the result of the    *)
(* direct call that returned last, and the vision service gives the child  *)
(* the same feedback.  replies lists the responses the handlers send on    *)
(* res, in order; the body of an error reply is its `error` text.          *)
(***************************************************************************)
IdleBridge ==
    [child |-> "none", exitCode |-> Absent, request |-> NoParams, expect |-> Absent,
     written |-> FALSE, responseData |-> <<>>, timeout |-> "none",
     errorEmitted |-> FALSE, closed |-> FALSE, replies |-> <<>>]

Reply(status, error, data) == [status |-> status, error |-> error, data |-> data]

\* Lines 9-31 of index.js, run in a process of its own: the child answers its
\* one request from a Map that starts empty.
ChildResult(params, feedback) ==
    LET context == NewContext(params)
        angleReset == AngleChanged(context.lastAngle, params.currentAngle)
        counted == Entered(context, params.currentAngle)
    IN  Response(Recorded(counted, feedback, params.currentAngle, angleReset),
                 feedback, angleReset)

\* What the child may print as its last line: the tool result, an error
\* object, or a line that is neither.
ChildLines(params, feedback) ==
    {[kind |-> "content", data |-> Some(ChildResult(params, feedback))],
     [kind |-> "error", data |-> Absent],
     [kind |-> "other", data |-> Absent]}

BridgeBusy ==
    /\ bridge.child # "none"
    /\ ~bridge.closed
    /\ ~(bridge.child = "spawnfailed" /\ bridge.errorEmitted)

\* Lines 27-44 and 102-114: the request handler, for the body `params`.
PostAssess(params, expect, spawned) ==
    /\ ~BridgeBusy
    /\ bridge' = [IdleBridge EXCEPT !.child = IF spawned THEN "running" ELSE "spawnfailed",
                                    !.request = params, !.expect = expect,
                                    !.timeout = "armed"]
    /\ UNCHANGED <<assessmentContexts, heap, calls, outcome, started>>

\* Lines 46-48: the child prints a line.
StdoutData(line) ==
    /\ bridge.child = "running"
    /\ ~bridge.written
    /\ bridge' = [bridge EXCEPT !.responseData = Append(@, line), !.written = TRUE]
    /\ UNCHANGED <<assessmentContexts, heap, calls, outcome, started>>

\* The child process ends by itself with exit code `code`.
ChildExit(code) ==
    /\ bridge.child = "running"
    /\ bridge' = [bridge EXCEPT !.child = "exited", !.exitCode = Some(code)]
    /\ UNCHANGED <<assessmentContexts, heap, calls, outcome, started>>

\* Lines 41-44: thirty seconds have passed and the timer was not cleared.
\* The 'error' event of a child that failed to start is emitted on the next
\* tick, before any timer, and clears it.
OnTimeout ==
    /\ bridge.timeout = "armed"
    /\ bridge.child # "spawnfailed"
    /\ bridge' = [bridge EXCEPT
                     !.child = IF @ = "running" THEN "killed" ELSE @,
                     !.timeout = "fired",
                     !.replies = Append(@, Reply(504, "Assessment timeout", Absent))]
    /\ UNCHANGED <<assessmentContexts, heap, calls, outcome, started>>

ClearTimeout(t) == IF t = "armed" THEN "cleared" ELSE t

\* Lines 56-60: the child could not be spawned.
OnError ==
    /\ bridge.child = "spawnfailed"
    /\ ~bridge.errorEmitted
    /\ bridge' = [bridge EXCEPT
                     !.errorEmitted = TRUE,
                     !.timeout = ClearTimeout(@),
                     !.replies = Append(@, Reply(500, "Failed to start MCP process", Absent))]
    /\ UNCHANGED <<assessmentContexts, heap, calls, outcome, started>>

\* Lines 73-99: the reply the close handler derives from the child's output.
ParseReply(responseData) ==
    IF Len(responseData) = 0
    THEN Reply(500, "Failed to parse MCP response", Absent)
    ELSE LET lastLine == responseData[Len(responseData)]
         IN  IF lastLine.kind = "content"
             THEN Reply(200, "", lastLine.data)
             ELSE Reply(500, "Failed to parse MCP response", Absent)

\* Lines 62-100: the child's stdio has closed; a killed child has code null.
\* A child that failed to start closes too, after its 'error' event, with the
\* negative errno of the failure as its code.
OnClose ==
    /\ \/ bridge.child \in {"exited", "killed"}
       \/ bridge.child = "spawnfailed" /\ bridge.errorEmitted
    /\ ~bridge.closed
    /\ LET failed == \/ bridge.child = "spawnfailed"
                     \/ IsPresent(bridge.exitCode) /\ Get(bridge.exitCode) # 0
           reply == IF failed THEN Reply(500, "MCP process failed", Absent)
                    ELSE ParseReply(bridge.responseData)
       IN  bridge' = [bridge EXCEPT !.closed = TRUE,
                                    !.timeout = ClearTimeout(@),
                                    !.replies = Append(@, reply)]
    /\ UNCHANGED <<assessmentContexts, heap, calls, outcome, started>>

(***************************************************************************)
(* Specifications.                                                         *)
(***************************************************************************)
Init ==
    /\ assessmentContexts = <<>>
    /\ heap = <<>>
    /\ calls = [c \in Slots |-> IdleCall]
    /\ outcome = NoOutcome
    /\ started = 0
    /\ bridge = IdleBridge

\* The slot a new invocation takes.
FreeSlot == CHOOSE c \in Slots : calls[c].pc = "idle" /\ \A d \in 1..(c - 1) : calls[d].pc # "idle"

CanBegin == \E c \in Slots : calls[c].pc = "idle"

\* Requests may overlap: a new one arrives while others await the vision service.
Next ==
    \/ \E params \in Requests : started < MaxCalls /\ CanBegin /\ Begin(FreeSlot, params)
    \/ \E c \in Slots, feedback \in FewFeedbacks : Succeed(c, feedback)
    \/ \E c \in Slots : Fail(c)

Spec == Init /\ [][Next]_vars

\* One request at a time: the next arrives after the previous one has settled.
NextSeq ==
    \/ \E params \in Requests :
          started < MaxSeqCalls /\ Awaiting(calls) = {} /\ Begin(1, params)
    \/ \E feedback \in Feedbacks : Succeed(1, feedback)
    \/ Fail(1)

SpecSeq == Init /\ [][NextSeq]_vars

\* One request at a time, over the wide set of requests and tool names.
NextWide ==
    \/ \E params \in WideRequests :
          started < MaxWideCalls /\ Awaiting(calls) = {} /\ Begin(1, params)
    \/ Awaiting(calls) = {} /\ UnknownTool
    \/ \E feedback \in FewFeedbacks : Succeed(1, feedback)
    \/ Fail(1)

SpecWide == Init /\ [][NextWide]_vars

\* One request at a time to the in-process server; each request it answers
\* may be posted to the bridge, whose child sees the same model output.
NextBridge ==
    \/ \E params \in BridgeRequests :
          started < MaxBridgeCalls /\ Awaiting(calls) = {} /\ Begin(1, params)
    \/ \E feedback \in FewFeedbacks : Succeed(1, feedback)
    \/ Fail(1)
    \/ \E spawned \in BOOLEAN :
          outcome.kind = "returned" /\ PostAssess(outcome.params, outcome.response, spawned)
    \/ /\ bridge.child = "running"
       /\ \E line \in ChildLines(bridge.request, Get(bridge.expect).feedback) :
             StdoutData(line)
    \/ \E code \in {0, 1} : ChildExit(code)
    \/ OnTimeout
    \/ OnError
    \/ OnClose

SpecBridge == Init /\ [][NextBridge]_vars

\* The same system with the scheduling node guarantees: an armed timer that is
\* never cleared fires, and the 'error' and 'close' events of a child that
\* failed to start, ended or was killed are delivered. Nothing obliges the
\* vision service to answer, so the settling of the awaited
\* chat.completions.create call and the child's output and exit are not fair.
SpecBridgeFair ==
    SpecBridge /\ WF_vars(OnTimeout) /\ WF_vars(OnError) /\ WF_vars(OnClose)

(***************************************************************************)
(* Properties.                                                             *)
(***************************************************************************)
\* The step in which the invocation in slot c returns, or throws.
Returns(c) == calls[c].pc = "awaiting" /\ calls'[c].pc = "idle" /\ outcome'.kind = "returned"
Throws(c) == calls[c].pc = "awaiting" /\ calls'[c].pc = "idle" /\ outcome'.kind = "thrown"

StoredKeys == DOMAIN assessmentContexts
Stored(k) == heap[assessmentContexts[k]]
Quiet(k) == \A c \in Awaiting(calls) : calls[c].contextKey # k

Complete(params) ==
    IsPresent(params.imageBase64) /\ IsPresent(params.roomType) /\ IsPresent(params.shootId)

\* C1: a call on a stored session whose vision-service call fails leaves the
\* stored session (counter, history, constraints, last orientation) as it was
\* before the call, whether or not the call's orientation triggered a reset.
\* Stated for calls that no other call on the key overlaps.
C1_FailedCallLeavesSession ==
    [][\A c \in Slots :
          (Throws(c) /\ IsPresent(calls[c].pre) /\ calls[c].alone)
          => Session(assessmentContexts', heap', calls[c].contextKey) = calls[c].pre]_vars

\* C2: when a call that found no stored session returns after an overlapping
\* call on the same key has stored one, the session it stores keeps the other
\* call's record and counts both calls.
C2_NoLostUpdate ==
    [][\A c \in Slots :
          (Returns(c) /\ ~IsPresent(calls[c].pre) /\ calls[c].contextKey \in StoredKeys)
          => LET before == Stored(calls[c].contextKey)
                 after == Get(Session(assessmentContexts', heap', calls[c].contextKey))
             IN  /\ after.attempts = before.attempts + 1
                 /\ Len(after.assessments) = Len(before.assessments) + 1
                 /\ SubSeq(after.assessments, 1, Len(before.assessments))
                        = before.assessments]_vars

\* C3: whenever no call on a key is in flight, the stored session's attempt
\* counter equals the length of its assessment history.
C3_CounterIsHistoryLength ==
    \A k \in StoredKeys : Quiet(k) => Stored(k).attempts = Len(Stored(k).assessments)

\* C4: a request that lacks image data, room type or shoot identifier never
\* reaches the vision service, never returns a result, and leaves no session
\* under its key.
C4_IncompleteRequestRejected ==
    /\ \A c \in Awaiting(calls) : Complete(calls[c].params)
    /\ outcome.kind = "returned" => Complete(outcome.params)
    /\ \A p \in IncompleteRequests : contextKey(p) \in StoredKeys
          => \E q \in WideRequests : Complete(q) /\ contextKey(q) = contextKey(p)

\* The fields of a response that the two variants must agree on.
Compared(r) == [attemptNumber |-> r.attemptNumber, angleReset |-> r.angleReset,
                score |-> r.score, isAcceptable |-> r.isAcceptable,
                constraints |-> r.constraints]

\* C5: when the bridge answers a request with an assessment, the assessment
\* has the attemptNumber, angleReset, score, isAcceptable and constraints that
\* the in-process server returned for the same request and model output.
C5_BridgeAgreesWithDirect ==
    \A i \in 1..Len(bridge.replies) :
        bridge.replies[i].status = 200
        => Compared(Get(bridge.replies[i].data)) = Compared(Get(bridge.expect))

\* C6: a call resets exactly when the stored last-seen orientation and the
\* call's orientation are both present and dPitch^2 + dYaw^2 + dRoll^2 exceeds
\* 30^2; a dissimilarity of exactly 30, or an absent orientation, never resets.
C6_ResetIffBeyondThirty ==
    \A c \in Awaiting(calls) :
        LET last == IF IsPresent(calls[c].pre) THEN Get(calls[c].pre).lastAngle ELSE Absent
            cur == calls[c].params.currentAngle
        IN  calls[c].angleReset <=>
                /\ IsPresent(last)
                /\ IsPresent(cur)
                /\ (Get(last).pitch - Get(cur).pitch) * (Get(last).pitch - Get(cur).pitch)
                   + (Get(last).yaw - Get(cur).yaw) * (Get(last).yaw - Get(cur).yaw)
                   + (Get(last).roll - Get(cur).roll) * (Get(last).roll - Get(cur).roll)
                   > 900

\* A call in flight whose orientation is exactly 30 from the stored one.
C6_Witness ==
    \E c \in Awaiting(calls) :
        /\ IsPresent(calls[c].pre)
        /\ Get(calls[c].pre).lastAngle = Some(A0)
        /\ calls[c].params.currentAngle = Some(A30)
        /\ ~calls[c].angleReset

\* C7: a successful call that triggers an angle reset on a stored session
\* returns angleReset = true and attemptNumber = 1, leaves the stored history
\* holding exactly its own record, and keeps every constraint known before.
C7_ResetRestartsAtOne ==
    [][\A c \in Slots :
          (Returns(c) /\ calls[c].angleReset)
          => LET after == Get(Session(assessmentContexts', heap', calls[c].contextKey))
                 response == Get(outcome'.response)
             IN  /\ response.angleReset
                 /\ response.attemptNumber = 1
                 /\ Len(after.assessments) = 1
                 /\ after.assessments[1].feedback = response.feedback
                 /\ after.assessments[1].attemptNumber = 1
                 /\ Range(Get(calls[c].pre).constraints) \subseteq Range(after.constraints)
                 /\ Range(Get(calls[c].pre).constraints) \subseteq Range(response.constraints)]_vars

\* C8: with one call at a time, no step (a call entering, returning or
\* throwing, with or without a reset) removes a stored session or a
\* constraint from a stored session's constraint set.
C8_ConstraintsNeverShrink ==
    [][\A k \in StoredKeys :
          /\ k \in DOMAIN assessmentContexts'
          /\ Range(Stored(k).constraints)
                \subseteq Range(heap'[assessmentContexts'[k]].constraints)]_vars

\* A reset call has returned and the session still holds a constraint.
C8_Witness ==
    /\ outcome.kind = "returned"
    /\ outcome.angleReset
    /\ \E k \in StoredKeys : Len(Stored(k).constraints) > 0 /\ Len(Stored(k).assessments) = 1
                             /\ Len(extractConstraints(Stored(k).assessments[1].feedback)) = 0

\* C9: the score of a successful response is 75, 82, 88 for attemptNumber
\* 1, 2, 3 and 90 from 4 on, and calculateScore does not decrease up to it.
C9_ScoreStaircase ==
    outcome.kind = "returned" =>
        LET n == Get(outcome.response).attemptNumber
            score == Get(outcome.response).score
        IN  /\ n >= 1
            /\ n = 1 => score = 75
            /\ n = 2 => score = 82
            /\ n = 3 => score = 88
            /\ n >= 4 => score = 90
            /\ \A m \in 1..n : calculateScore(m) <= calculateScore(m + 1)

\* A fourth attempt has been scored.
C9_Witness ==
    /\ outcome.kind = "returned"
    /\ Get(outcome.response).attemptNumber = 4
    /\ Get(outcome.response).score = 90

\* The stored history is that of k successful calls in a row on a fresh
\* session, none of them a reset and none failed in between: its records are
\* numbered 1..k and the counter is k.
CleanRun(session) ==
    /\ session.attempts = Len(session.assessments)
    /\ \A i \in 1..Len(session.assessments) :
          /\ session.assessments[i].attemptNumber = i
          /\ ~session.assessments[i].angleReset

\* C10: a response is acceptable exactly when its attemptNumber is at least
\* 3; the k-th call of a run of successful calls without reset on a fresh
\* session returns attemptNumber k, so calls 1 and 2 are not acceptable and
\* every call from the third on is.
C10_ProgressiveAcceptance ==
    (outcome.kind = "returned" /\ Awaiting(calls) = {}) =>
        LET response == Get(outcome.response)
            session == Stored(contextKey(outcome.params))
            k == Len(session.assessments)
        IN  /\ response.isAcceptable <=> response.attemptNumber >= 3
            /\ CleanRun(session) =>
                  /\ response.attemptNumber = k
                  /\ k <= 2 => ~response.isAcceptable
                  /\ k >= 3 => response.isAcceptable

\* The third call of such a run has returned, acceptable.
C10_Witness ==
    /\ outcome.kind = "returned"
    /\ Awaiting(calls) = {}
    /\ CleanRun(Stored(contextKey(outcome.params)))
    /\ Len(Stored(contextKey(outcome.params)).assessments) = 3
    /\ Get(outcome.response).isAcceptable

\* The acceptance a session carries. The context object has no accepted
\* field; what it holds is the counter the responses' isAcceptable is computed
\* from and the attempt numbers of its records.
Accepted(session) ==
    \/ isAcceptable(session.attempts)
    \/ \E i \in 1..Len(session.assessments) :
          isAcceptable(session.assessments[i].attemptNumber)

\* C11: acceptance is sticky: once a call on a key has yielded an acceptable
\* result, the session is accepted after every later call on that key, a call
\* that resets on an angle change included.
C11_AcceptedIsSticky ==
    [][\A c \in Slots :
          (Returns(c) /\ IsPresent(calls[c].pre) /\ Accepted(Get(calls[c].pre)))
          => /\ Accepted(Get(Session(assessmentContexts', heap', calls[c].contextKey)))
             /\ Get(outcome'.response).isAcceptable]_vars

\* An invocation of assessPhoto that awaits the vision service settles.
DirectCallCompletes == \A c \in Slots : (calls[c].pc = "awaiting") ~> (calls[c].pc = "idle")

\* A request posted to the bridge is answered.
BridgeRequestAnswered == BridgeBusy ~> (Len(bridge.replies) > 0)

\* C12: every assess call eventually completes with a response or an error,
\* even when the vision service never answers, on the in-process server as
\* well as through the bridge.
C12_EveryCallCompletes == DirectCallCompletes /\ BridgeRequestAnswered

\* C13: calls on one key act as if run one after the other. When a call on a
\* stored session returns without reset, the last of the calls in flight
\* together with it, and the call that returned just before it on the same
\* key did not reset either, the two responses carry distinct attemptNumbers,
\* as they would in either serial order.
C13_OverlappingCallsLinearized ==
    [][\A c \in Slots :
          (/\ Returns(c)
           /\ ~calls[c].alone
           /\ Awaiting(calls) = {c}
           /\ IsPresent(calls[c].pre)
           /\ ~calls[c].angleReset
           /\ outcome.kind = "returned"
           /\ ~outcome.angleReset
           /\ contextKey(outcome.params) = calls[c].contextKey)
          => Get(outcome'.response).attemptNumber
                 # Get(outcome.response).attemptNumber]_vars

\* C14: the bridge sends exactly one HTTP response per POST /assess under
\* every ordering of the child's events: never a second one, whether 'close'
\* follows the timeout's 504 or the 'error' handler's 500, and one once the
\* child has closed.
C14_ExactlyOneResponse ==
    /\ Len(bridge.replies) <= 1
    /\ bridge.closed => Len(bridge.replies) = 1

\* C15: in every stored session the history is numbered consecutively from 1:
\* its k-th record has attemptNumber k, whatever calls came before, failed
\* calls and angle resets included.
C15_HistoryNumberedConsecutively ==
    \A k \in StoredKeys :
        \A i \in 1..Len(Stored(k).assessments) :
            Stored(k).assessments[i].attemptNumber = i

\* C16: the prompt built for a call lists, each on a line of its own and
\* verbatim, every constraint the stored session held when the call started,
\* on ordinary and angle-reset calls alike; and every constraint extracted
\* from the feedback of the call that returned just before on the same key.
C16_ConstraintsListedInPrompt ==
    \A c \in Awaiting(calls) :
        LET lines == Range(calls[c].systemPrompt)
        IN  /\ IsPresent(calls[c].pre) =>
                  \A x \in Range(Get(calls[c].pre).constraints) : ("- " \o x) \in lines
            /\ (outcome.kind = "returned"
                    /\ contextKey(outcome.params) = calls[c].contextKey) =>
                  \A x \in Range(extractConstraints(Get(outcome.response).feedback)) :
                      ("- " \o x) \in lines

\* An angle-reset call is in flight on a session that held both constraints,
\* the later of them extracted from the previous call's feedback.
C16_Witness ==
    \E c \in Awaiting(calls) :
        /\ calls[c].angleReset
        /\ IsPresent(calls[c].pre)
        /\ Len(Get(calls[c].pre).constraints) = 2
        /\ outcome.kind = "returned"
        /\ extractConstraints(Get(outcome.response).feedback) # <<>>
        /\ "- Wall directly behind camera position" \in Range(calls[c].systemPrompt)

\* The previous-feedback lines of a prompt, in order.
QuotedFeedback(prompt) ==
    SelectSeq(prompt, LAMBDA line : \E feedback \in Feedbacks : line = "- \"" \o feedback \o "\"")

\* The feedback texts of the last min(2, n) records of a history of length n.
LastFeedbacks(assessments) ==
    LET n == Len(assessments)
        m == IF n < 2 THEN n ELSE 2
    IN  [i \in 1..m |-> "- \"" \o assessments[n - m + i].feedback \o "\""]

\* C17: the prompt of a call lists exactly the feedback texts of the last
\* min(2, n) records of the session history, n its length once a reset has
\* been applied, when n > 0 and the call is not an angle reset; it lists no
\* prior feedback on a first call or an angle-reset call.
C17_PromptListsLastTwoFeedbacks ==
    \A c \in Awaiting(calls) :
        LET listed == QuotedFeedback(calls[c].systemPrompt)
            header == "Previous feedback given:" \in Range(calls[c].systemPrompt)
            history == IF IsPresent(calls[c].pre) /\ ~calls[c].angleReset
                       THEN Get(calls[c].pre).assessments ELSE <<>>
        IN  /\ listed = LastFeedbacks(history)
            /\ header <=> Len(history) > 0

\* A call that is not a reset is in flight on a session with three records,
\* the first of which said something the last two did not.
C17_Witness ==
    \E c \in Awaiting(calls) :
        /\ ~calls[c].angleReset
        /\ IsPresent(calls[c].pre)
        /\ Len(Get(calls[c].pre).assessments) = 3
        /\ Len(QuotedFeedback(calls[c].systemPrompt)) = 2
        /\ ("- \"" \o Get(calls[c].pre).assessments[1].feedback \o "\"")
               \notin Range(calls[c].systemPrompt)

\* C18: the stored last-seen orientation is that of the last successful call.
\* The return of a call stores the orientation the call supplied, absent when
\* it supplied none; a call that throws, and a call that starts, leave the
\* stored one as it was; so a stored session with records holds the
\* orientation of its latest record, and a call that finds none stored never
\* resets.
C18_LastAngleIsLastCallsAngle ==
    [][/\ \A c \in Slots :
             Returns(c) =>
                 Get(Session(assessmentContexts', heap', calls[c].contextKey)).lastAngle
                     = calls[c].params.currentAngle
       /\ \A k \in StoredKeys :
             (\A c \in Slots : ~(Returns(c) /\ calls[c].contextKey = k)) =>
                 /\ k \in DOMAIN assessmentContexts'
                 /\ Get(Session(assessmentContexts', heap', k)).lastAngle = Stored(k).lastAngle
       /\ \A k \in DOMAIN assessmentContexts' :
             LET session == Get(Session(assessmentContexts', heap', k))
                 n == Len(session.assessments)
             IN  n > 0 => session.lastAngle = session.assessments[n].angle
       /\ \A c \in Awaiting(calls') :
             (IsPresent(calls'[c].pre) /\ ~IsPresent(Get(calls'[c].pre).lastAngle))
             => ~calls'[c].angleReset]_vars

\* A call that supplies an orientation is in flight, without reset, on a
\* session whose latest successful call supplied none and an earlier one did.
C18_Witness ==
    \E c \in Awaiting(calls) :
        /\ IsPresent(calls[c].params.currentAngle)
        /\ IsPresent(calls[c].pre)
        /\ ~IsPresent(Get(calls[c].pre).lastAngle)
        /\ \E i \in 1..Len(Get(calls[c].pre).assessments) :
              IsPresent(Get(calls[c].pre).assessments[i].angle)
        /\ ~calls[c].angleReset

\* The pair a request names, and the pair a stored session was created for.
Pair(params) == <<params.shootId, params.roomType>>

\* C19: sessions of distinct (shootId, roomType) pairs are independent: no
\* step of a call for one pair, its start, return or throw, changes the
\* session stored for another pair, whatever the strings, ':' included.
C19_SessionsIndependent ==
    [][\A c \in Slots :
          calls[c].pc # calls'[c].pc =>
              LET params == IF calls[c].pc = "idle" THEN calls'[c].params
                            ELSE calls[c].params
              IN  \A k \in StoredKeys :
                      Pair(Stored(k)) # Pair(params) =>
                          Session(assessmentContexts', heap', k) = Some(Stored(k))]_vars

====
